---- MODULE Spec2Model ----
(***************************************************************************)
(* Model of the multi-agent retrieval pipeline of the AutoGen notebook:    *)
(* the Tip Store (health_tips), the Retrieval Function (retrieve_tips)     *)
(* and the round-robin group chat driven by run_query.                     *)
(*                                                                         *)
(* A Python str is modelled as a sequence of one-character strings, so     *)
(* that lower(), split(), the substring test `in`, f-string rendering and  *)
(* "\n".join are computed character by character, as the code computes    *)
(* them.                                                                   *)
(***************************************************************************)
EXTENDS Integers, Sequences, FiniteSets, TLC

(***************************************************************************)
(* The Tip Store as the notebook defines it.                               *)
(***************************************************************************)
HealthTipsDef ==
    <<
      \* tip1: "Do a 10-minute HIIT workout to boost your metabolism." (Fitness Guru)
      [id |-> <<"t", "i", "p", "1">>,
       content |->
         <<"D", "o", " ", "a", " ", "1", "0", "-", "m", "i", "n", "u", "t", "e", " ", "H", "I",
           "I", "T", " ", "w", "o", "r", "k", "o", "u", "t", " ", "t", "o", " ", "b", "o", "o",
           "s", "t", " ", "y", "o", "u", "r", " ", "m", "e", "t", "a", "b", "o", "l", "i", "s",
           "m", ".">>,
       source |-> <<"F", "i", "t", "n", "e", "s", "s", " ", "G", "u", "r", "u">>],
      \* tip2: "Take a brisk 15-minute walk to clear your mind and improve circulation." (Health Coach)
      [id |-> <<"t", "i", "p", "2">>,
       content |->
         <<"T", "a", "k", "e", " ", "a", " ", "b", "r", "i", "s", "k", " ", "1", "5", "-", "m",
           "i", "n", "u", "t", "e", " ", "w", "a", "l", "k", " ", "t", "o", " ", "c", "l", "e",
           "a", "r", " ", "y", "o", "u", "r", " ", "m", "i", "n", "d", " ", "a", "n", "d", " ",
           "i", "m", "p", "r", "o", "v", "e", " ", "c", "i", "r", "c", "u", "l", "a", "t", "i",
           "o", "n", ".">>,
       source |-> <<"H", "e", "a", "l", "t", "h", " ", "C", "o", "a", "c", "h">>],
      \* tip3: "Stretch for 5 minutes every hour if you're sitting at a desk." (Wellness Expert)
      [id |-> <<"t", "i", "p", "3">>,
       content |->
         <<"S", "t", "r", "e", "t", "c", "h", " ", "f", "o", "r", " ", "5", " ", "m", "i", "n",
           "u", "t", "e", "s", " ", "e", "v", "e", "r", "y", " ", "h", "o", "u", "r", " ", "i",
           "f", " ", "y", "o", "u", "'", "r", "e", " ", "s", "i", "t", "t", "i", "n", "g", " ",
           "a", "t", " ", "a", " ", "d", "e", "s", "k", ".">>,
       source |-> <<"W", "e", "l", "l", "n", "e", "s", "s", " ", "E", "x", "p", "e", "r", "t">>],
      \* tip4: "Incorporate strength training twice a week for overall fitness." (Personal Trainer)
      [id |-> <<"t", "i", "p", "4">>,
       content |->
         <<"I", "n", "c", "o", "r", "p", "o", "r", "a", "t", "e", " ", "s", "t", "r", "e", "n",
           "g", "t", "h", " ", "t", "r", "a", "i", "n", "i", "n", "g", " ", "t", "w", "i", "c",
           "e", " ", "a", " ", "w", "e", "e", "k", " ", "f", "o", "r", " ", "o", "v", "e", "r",
           "a", "l", "l", " ", "f", "i", "t", "n", "e", "s", "s", ".">>,
       source |-> <<"P", "e", "r", "s", "o", "n", "a", "l", " ", "T", "r", "a", "i", "n", "e", "r">>],
      \* tip5: "Drink water regularly to stay hydrated during workouts." (Nutritionist)
      [id |-> <<"t", "i", "p", "5">>,
       content |->
         <<"D", "r", "i", "n", "k", " ", "w", "a", "t", "e", "r", " ", "r", "e", "g", "u", "l",
           "a", "r", "l", "y", " ", "t", "o", " ", "s", "t", "a", "y", " ", "h", "y", "d", "r",
           "a", "t", "e", "d", " ", "d", "u", "r", "i", "n", "g", " ", "w", "o", "r", "k", "o",
           "u", "t", "s", ".">>,
       source |-> <<"N", "u", "t", "r", "i", "t", "i", "o", "n", "i", "s", "t">>]
    >>

\* the f-string prefix "Source: "
SourcePrefix ==
    <<"S", "o", "u", "r", "c", "e", ":", " ">>

\* the f-string infix " => "
Arrow ==
    <<" ", "=", ">", " ">>

\* the join separator "\n"
Newline ==
    <<"\n">>

\* "I'm very busy but want to stay fit. What quick exercises can I do?"
user_query ==
    <<"I", "'", "m", " ", "v", "e", "r", "y", " ", "b", "u", "s", "y", " ", "b", "u", "t",
      " ", "w", "a", "n", "t", " ", "t", "o", " ", "s", "t", "a", "y", " ", "f", "i", "t",
      ".", " ", "W", "h", "a", "t", " ", "q", "u", "i", "c", "k", " ", "e", "x", "e", "r",
      "c", "i", "s", "e", "s", " ", "c", "a", "n", " ", "I", " ", "d", "o", "?">>

\* "HIIT workout"
HIITQuery ==
    <<"H", "I", "I", "T", " ", "w", "o", "r", "k", "o", "u", "t">>

\* "Fitness Guru"
FitnessGuru ==
    <<"F", "i", "t", "n", "e", "s", "s", " ", "G", "u", "r", "u">>

UpperCase ==
    <<"A", "B", "C", "D", "E", "F", "G", "H", "I", "J", "K", "L", "M", "N", "O", "P", "Q",
      "R", "S", "T", "U", "V", "W", "X", "Y", "Z">>

LowerCase ==
    <<"a", "b", "c", "d", "e", "f", "g", "h", "i", "j", "k", "l", "m", "n", "o", "p", "q",
      "r", "s", "t", "u", "v", "w", "x", "y", "z">>

\* the characters str.split() treats as separators
Whitespace ==
    {" ", "\t", "\n", "\r"}

\* "RetrieverAgent", the name of the first participant
Retriever == "RetrieverAgent"

\* "ResponderAgent", the name of the second participant
Responder == "ResponderAgent"

\* mutant of agents: agents=[responder, retriever]
AgentsSwapped ==
    <<Responder, Retriever>>

\* RoundRobinGroupChat(agents=[retriever, responder], ...)
agents ==
    <<Retriever, Responder>>

\* RoundRobinGroupChat(..., max_turns=4)
max_turns == 4

\* RoundRobinGroupChat(..., termination_condition=None, ...)
termination_condition == "None"

\* model_client: model_info = {..., "function_calling": False, ...}
function_calling ==
    FALSE

\* retriever: tools=[retrieve_tips]; responder: no tools
tools ==
    [RetrieverAgent |-> {"retrieve_tips"}, ResponderAgent |-> {}]

(***************************************************************************)
(* Bounds of the model.                                                    *)
(***************************************************************************)
\* a query is the concatenation of at most MaxQueryTokens tokens
MaxQueryTokens == 3

\* run_query is executed at most MaxRuns times on the same group_chat
MaxRuns == 2

\* the pieces queries are built from: words that match one tip ("HIIT"),
\* several tips ("workout", "5"), no tip ("zzz"), and two separators
QueryTokens ==
    { <<"H", "I", "I", "T">>,
      <<"w", "o", "r", "k", "o", "u", "t">>,
      <<"z", "z", "z">>,
      <<"5">>,
      <<" ">>,
      <<"\t">> }

RECURSIVE TokenStrings(_)
TokenStrings(n) ==
    IF n = 0 THEN {<<>>}
    ELSE LET shorter == TokenStrings(n - 1)
         IN  shorter \cup {p \o t : p \in shorter, t \in QueryTokens}

\* the queries retrieve_tips is applied to as a function of its argument
Queries ==
    TokenStrings(MaxQueryTokens) \cup {HIITQuery, user_query}

\* the queries of a session, in which calls repeat and interleave with runs:
\* "", "HIIT workout", the query of run_query, "zzz" and "5 "
SessionQueries ==
    {<<>>, HIITQuery, user_query, <<"z", "z", "z">>, <<"5", " ">>}

VARIABLES
    health_tips,         \* the module-level list of tips
    query,               \* argument of the latest retrieve_tips call
    outcome,             \* "none" before any call, then "returned" or "KeyError"
    result,              \* value returned by the latest retrieve_tips call
    memo,                \* an earlier call, remembered: [set, q, r, between]
    state,               \* of the current run: Idle, RetrieverTurn, ResponderTurn, Done
    current_turn,        \* role invocations completed in the current run
    next_speaker_index,  \* round-robin position of the group chat (0-based)
    transcript,          \* the messages held by group_chat, in order; each is
                         \* [source, content, run, tool_call], run and tool_call
                         \* recording the run that produced it and whether
                         \* retrieve_tips was called to produce it
    invoked,             \* the roles invoked in the current run, in order
    runs,                \* number of run_query executions started
    active,              \* the roles whose invocation is in progress
    stop_reason,         \* why the current run ended: none, max_turns, termination
    final_result,        \* run_query: the latest item of the stream
    report               \* run_query: how it ended, [kind |-> "none"] while it has
                         \* not: printed the final response, or raised

retrieval == <<query, outcome, result, memo>>

team == <<state, current_turn, next_speaker_index, transcript, invoked, runs,
          active, stop_reason, final_result, report>>

\* the configuration cell at the head of every notebook: the search for
\* cred.json and the loading of what it finds
VARIABLES
    notebook,            \* the notebook whose configuration cell runs
    cwd,                 \* os.getcwd(): the names from the root down
    cred_dirs,           \* the directories that hold a file cred.json
    cred_content,        \* what opening and parsing the file met, once the
                         \* cell has tried: see CredContents
    config_pc,           \* position in the cell: idle, start, search, load, done
    current,             \* find_cred_json: the directory under examination
    examined,            \* the directories find_cred_json has tested so far
    file_path,           \* the global file_path: unassigned, None or a str
    printed,             \* the messages the cell has printed, in order
    cell_error           \* the exception that ended the cell, or "none"

credentials == <<notebook, cwd, cred_dirs, cred_content, config_pc, current,
                 examined, file_path, printed, cell_error>>

\* the health-calculator notebook (part_001) and the Bing-grounding notebook
\* (part_002), run top to bottom against the agent service
VARIABLES
    nb_pc,               \* the statement of the notebook that runs next
    frame,               \* the locals of the function in progress
    returns,             \* what the functions have returned, in order
    sdk_calls,           \* the calls made to the agent service and the local
                         \* file system, in order, with their success
    files,               \* the uploaded files the agent service holds
    service_agents,      \* the agents the agent service holds
    threads,             \* the threads of the agent service, by id
    local_files,         \* the files of the working directory
    sample_file,         \* globals of part_001 ...
    health_agent,
    uploaded_file,
    bmi_thread,
    bmi_run,
    nutrition_thread,
    nutrition_run,
    bing_agent,          \* globals of part_002 ...
    bing_threads,
    question,            \* the position of the loop over questions
    nb_error             \* the exception that ended a cell, or "none"

backend == <<files, service_agents, threads, local_files>>

health_globals == <<sample_file, health_agent, uploaded_file, bmi_thread, bmi_run,
                    nutrition_thread, nutrition_run>>

bing_globals == <<bing_agent, bing_threads, question>>

service == <<nb_pc, frame, returns, sdk_calls, backend, health_globals,
             bing_globals, nb_error>>

\* the notebooks other than the multi-agent one
notebooks == <<credentials, service>>

vars == <<health_tips, retrieval, team, notebooks>>

\* no configuration cell is running
CredentialsIdle ==
    /\ notebook = "part_003"
    /\ cwd = <<>>
    /\ cred_dirs = {}
    /\ cred_content = "unopened"
    /\ config_pc = "idle"
    /\ current = <<>>
    /\ examined = {}
    /\ file_path = [kind |-> "unassigned"]
    /\ printed = <<>>
    /\ cell_error = "none"

Unassigned == [kind |-> "unassigned"]

NoFrame == [fn |-> "none"]

\* the kernel and the agent service before a notebook runs
ServiceInit ==
    /\ frame = NoFrame
    /\ returns = <<>>
    /\ sdk_calls = <<>>
    /\ files = {}
    /\ service_agents = {}
    /\ threads = <<>>
    /\ local_files = {}
    /\ sample_file = Unassigned
    /\ health_agent = Unassigned
    /\ uploaded_file = Unassigned
    /\ bmi_thread = Unassigned
    /\ bmi_run = Unassigned
    /\ nutrition_thread = Unassigned
    /\ nutrition_run = Unassigned
    /\ bing_agent = Unassigned
    /\ bing_threads = Unassigned
    /\ question = 0
    /\ nb_error = "none"

NotebooksIdle ==
    /\ CredentialsIdle
    /\ nb_pc = "idle"
    /\ ServiceInit

(***************************************************************************)
(* Python string operations used by retrieve_tips.                         *)
(***************************************************************************)
UpperSet ==
    {UpperCase[k] : k \in 1..Len(UpperCase)}

\* str.lower() on one character
LowerChar(c) ==
    IF c \in UpperSet
    THEN LowerCase[CHOOSE k \in 1..Len(UpperCase) : UpperCase[k] = c]
    ELSE c

RECURSIVE LowerFrom(_, _, _)
LowerFrom(s, k, done) ==
    IF k > Len(s) THEN done
    ELSE LowerFrom(s, k + 1, Append(done, LowerChar(s[k])))

\* str.lower()
lower(s) ==
    LowerFrom(s, 1, <<>>)

RECURSIVE SplitFrom(_, _, _, _)
SplitFrom(s, k, word, words) ==
    IF k > Len(s)
    THEN IF word = <<>> THEN words ELSE Append(words, word)
    ELSE IF s[k] \in Whitespace
         THEN SplitFrom(s, k + 1, <<>>,
                        IF word = <<>> THEN words ELSE Append(words, word))
         ELSE SplitFrom(s, k + 1, Append(word, s[k]), words)

\* str.split() without arguments: the maximal runs of non-whitespace
split(s) ==
    SplitFrom(s, 1, <<>>, <<>>)

\* the substring test `word in text`
Contains(word, text) ==
    \E k \in 0..(Len(text) - Len(word)) :
        SubSeq(text, k + 1, k + Len(word)) = word

RECURSIVE JoinSpace(_, _)
\* mutant of join: " ".join(parts)
JoinSpace(sep, parts) ==
    IF parts = <<>> THEN <<>>
    ELSE IF Len(parts) = 1 THEN parts[1]
    ELSE parts[1] \o <<" ">> \o JoinSpace(sep, Tail(parts))

RECURSIVE join(_, _)
\* sep.join(parts)
join(sep, parts) ==
    IF parts = <<>> THEN <<>>
    ELSE IF Len(parts) = 1 THEN parts[1]
    ELSE parts[1] \o sep \o join(sep, Tail(parts))

(***************************************************************************)
(* retrieve_tips                                                           *)
(***************************************************************************)
\* mutant of Render: f"{tip['source']}: {tip['content']}"
RenderColon(tip) ==
    tip.source \o <<":", " ">> \o tip.content

\* f"Source: {tip['source']} => {tip['content']}"
Render(tip) ==
    SourcePrefix \o tip.source \o Arrow \o tip.content

\* mutant of Matches: any(word in tip["content"] for word in ...), no .lower()
MatchesCaseSensitive(tip, words) ==
    \E k \in 1..Len(words) : Contains(words[k], tip.content)

\* any(word in tip["content"].lower() for word in query_lower.split())
Matches(tip, words) ==
    LET content_lower == lower(tip.content)
    IN  \E k \in 1..Len(words) : Contains(words[k], content_lower)

\* mutant of Relevant: the loop runs over health_tips[1:]
RelevantSkipFirst(words) ==
    LET matched == SelectSeq(Tail(health_tips), LAMBDA tip : Matches(tip, words))
    IN  [k \in 1..Len(matched) |-> Render(matched[k])]

\* the list `relevant` when the loop over health_tips ends
Relevant(words) ==
    LET matched == SelectSeq(health_tips, LAMBDA tip : Matches(tip, words))
    IN  [k \in 1..Len(matched) |-> Render(matched[k])]

\* mutant of AllTips: no fallback, `relevant` stays empty
NoFallback ==
    <<>>

\* the fallback list: every tip of health_tips, rendered
AllTips ==
    [k \in 1..Len(health_tips) |-> Render(health_tips[k])]

\* mutant of retrieve_tips: `relevant` is a list shared by all calls, so a
\* call returns its lines after those of the call before
RetrieveAccumulating(q) ==
    LET relevant == Relevant(split(lower(q)))
        lines    == IF relevant = <<>> THEN AllTips ELSE relevant
    IN  join(Newline, IF outcome = "returned" THEN <<result>> \o lines ELSE lines)

\* the value retrieve_tips(q) returns
retrieve_tips(q) ==
    LET query_lower == lower(q)
        relevant    == Relevant(split(query_lower))
    IN  join(Newline, IF relevant = <<>> THEN AllTips ELSE relevant)

\* mutant of RetrieveRaises: query_lower.split()[0] is read, so a query
\* without words raises
RaisesWithoutWords(q) ==
    split(lower(q)) = <<>>

\* retrieve_tips(q) raises KeyError when a subscript it evaluates, tip["content"]
\* in the loop or tip['source'] / tip['content'] in a rendering, is missing
RetrieveRaises(q) ==
    LET words == split(lower(q))
        lacksContent(tip) == "content" \notin DOMAIN tip
        lacksKey(tip) == ~({"content", "source"} \subseteq DOMAIN tip)
    IN  \/ /\ words # <<>>
           /\ \E k \in 1..Len(health_tips) : lacksContent(health_tips[k])
        \/ /\ \E k \in 1..Len(health_tips) : lacksKey(health_tips[k])
           /\ LET hit == {k \in 1..Len(health_tips) :
                            /\ ~lacksContent(health_tips[k])
                            /\ Matches(health_tips[k], words)}
              IN  \E k \in 1..Len(health_tips) :
                     /\ lacksKey(health_tips[k])
                     /\ (hit = {} \/ k \in hit)

\* mutant of TipsAfterCall: the call consumes the list, health_tips.pop(0)
TipsPopped ==
    IF health_tips = <<>> THEN <<>> ELSE Tail(health_tips)

\* what a call of retrieve_tips does to the Tip Store: it only reads it
TipsAfterCall ==
    health_tips

\* one call retrieve_tips(q); `remember` marks the call a later one is compared
\* with, and memo.between records that another query was retrieved after it
RetrieveCall(q, remember) ==
    /\ query' = q
    /\ IF RetrieveRaises(q)
       THEN /\ outcome' = "KeyError"
            /\ UNCHANGED <<result, memo>>
       ELSE LET returned == retrieve_tips(q)
            IN  /\ outcome' = "returned"
                /\ result' = returned
                /\ memo' = IF remember
                           THEN [set |-> TRUE, q |-> q, r |-> returned,
                                 between |-> FALSE]
                           ELSE IF memo.set /\ q # memo.q
                                THEN [memo EXCEPT !.between = TRUE]
                                ELSE memo
    /\ health_tips' = TipsAfterCall

\* retrieve_tips called on its own, with any query of the session
Retrieve ==
    /\ \E q \in SessionQueries, remember \in BOOLEAN : RetrieveCall(q, remember)
    /\ UNCHANGED <<team, notebooks>>

\* retrieve_tips applied to the query drawn at the start
Apply ==
    /\ outcome = "none"
    /\ RetrieveCall(query, FALSE)
    /\ UNCHANGED <<team, notebooks>>

TeamInit ==
    /\ state = "Idle"
    /\ current_turn = 0
    /\ next_speaker_index = 0
    /\ transcript = <<>>
    /\ invoked = <<>>
    /\ runs = 0
    /\ active = {}
    /\ stop_reason = "none"
    /\ final_result = [none |-> TRUE]
    /\ report = [kind |-> "none"]

Init ==
    /\ health_tips = HealthTipsDef
    /\ query = <<>>
    /\ outcome = "none"
    /\ result = <<>>
    /\ memo = [set |-> FALSE, q |-> <<>>, r |-> <<>>, between |-> FALSE]
    /\ TeamInit
    /\ NotebooksIdle

(***************************************************************************)
(* The group chat.  RoundRobinGroupChat is the library's coordinator; the  *)
(* notebook fixes its participants, their order, the turn limit and the    *)
(* (absent) termination condition, and run_query drives one run of it.     *)
(***************************************************************************)
\* the coordinator state in which `name` holds the turn
TurnOf(name) ==
    IF name = Retriever THEN "RetrieverTurn" ELSE "ResponderTurn"

\* round-robin selection: the participant at next_speaker_index
NextSpeaker ==
    agents[next_speaker_index + 1]

\* termination_condition=None never fires
TerminationFires ==
    termination_condition # "None"

\* mutant of RunEnds: the turn limit compared with > instead of >=
RunEndsLate(turn) ==
    TerminationFires \/ turn > max_turns

\* the run stops after this response: the turn limit or the termination condition
RunEnds(turn) ==
    TerminationFires \/ turn >= max_turns

\* the role holding the turn may call retrieve_tips: the tool is registered
\* with it and its model client declares function calling
ToolUsePossible(name) ==
    function_calling /\ "retrieve_tips" \in tools[name]

\* mutant of Extend: the new message takes the place of the latest one
ReplaceLatest(thread, message) ==
    IF thread = <<>> THEN <<message>>
    ELSE SubSeq(thread, 1, Len(thread) - 1) \o <<message>>

\* the message thread after `message` is added to it
Extend(thread, message) ==
    Append(thread, message)

\* mutant of Requested: every participant is asked to respond at once
RequestedAll(name) ==
    {agents[k] : k \in 1..Len(agents)}

\* the participants asked to respond when `name` is given the turn
Requested(name) ==
    {name}

\* the task message run_stream posts: TextMessage(content=task, source="user")
TaskMessage ==
    [source |-> "user", content |-> user_query, run |-> runs + 1,
     tool_call |-> FALSE]

\* the message a role emits: the output of its model call
AgentMessage(name, called) ==
    [source |-> name, content |-> <<"output", ToString(Len(transcript) + 1)>>,
     run |-> runs, tool_call |-> called]

\* the last item of the stream: TaskResult(messages=..., stop_reason=...)
TaskResult(reason) ==
    [stop_reason |-> reason]

\* the thread a run starts on: group_chat is a module-level object that
\* run_query neither recreates nor resets, so it holds the earlier runs' messages
RunStartThread ==
    transcript

\* run_query(): group_chat.run_stream(task=user_query) posts the task and
\* gives the turn to the next participant in round-robin order
RunStart ==
    /\ \/ state = "Idle"
       \/ state = "Done" /\ report.kind # "none"
    /\ runs < MaxRuns
    /\ runs' = runs + 1
    /\ transcript' = Extend(RunStartThread, TaskMessage)
    /\ final_result' = TaskMessage
    /\ report' = [kind |-> "none"]
    /\ stop_reason' = "none"
    /\ current_turn' = 0
    /\ invoked' = <<NextSpeaker>>
    /\ active' = Requested(NextSpeaker)
    /\ state' = TurnOf(NextSpeaker)
    /\ next_speaker_index' = (next_speaker_index + 1) % Len(agents)
    /\ UNCHANGED <<health_tips, retrieval, notebooks>>

\* the coordinator receives the message of the role holding the turn; the
\* stream yields it, and yields the TaskResult after it when the run ends
HandleAgentResponse(name, called) ==
    /\ transcript' = Extend(transcript, AgentMessage(name, called))
    /\ IF RunEnds(current_turn + 1)
       THEN /\ state' = "Done"
            /\ current_turn' = 0
            /\ active' = active \ {name}
            /\ stop_reason' = IF TerminationFires THEN "termination"
                              ELSE "max_turns"
            /\ final_result' = TaskResult(stop_reason')
            /\ UNCHANGED <<invoked, next_speaker_index>>
       ELSE /\ current_turn' = current_turn + 1
            /\ invoked' = Append(invoked, NextSpeaker)
            /\ active' = (active \ {name}) \cup Requested(NextSpeaker)
            /\ state' = TurnOf(NextSpeaker)
            /\ next_speaker_index' = (next_speaker_index + 1) % Len(agents)
            /\ final_result' = AgentMessage(name, called)
            /\ UNCHANGED stop_reason
    /\ UNCHANGED <<runs, report, notebooks>>

\* the Retriever's turn: its model call may use the registered tool
\* retrieve_tips, with a query the model chooses, before it emits its message
RetrieverTurn ==
    /\ state = "RetrieverTurn"
    /\ Retriever \in active
    /\ \/ /\ ToolUsePossible(Retriever)
          /\ \E q \in SessionQueries, remember \in BOOLEAN : RetrieveCall(q, remember)
          /\ HandleAgentResponse(Retriever, TRUE)
       \/ /\ UNCHANGED <<health_tips, retrieval>>
          /\ HandleAgentResponse(Retriever, FALSE)

\* the Responder's turn: a model call without tools
ResponderTurn ==
    /\ state = "ResponderTurn"
    /\ Responder \in active
    /\ HandleAgentResponse(Responder, FALSE)
    /\ UNCHANGED <<health_tips, retrieval>>

\* mutant of ActiveAfterFailure: the failed invocation is caught and retried
RetriedAfterFailure ==
    active

\* the invocations in progress once an invocation has raised: none, nothing
\* in run_query or the group chat configuration retries
ActiveAfterFailure ==
    {}

\* the model call of the role holding the turn raises: run_query has no
\* try/except, so the exception leaves the loop and run_query, and the run
\* is over where it stood
RoleFails ==
    /\ state \in {"RetrieverTurn", "ResponderTurn"}
    /\ active # {}
    /\ active' = ActiveAfterFailure
    /\ report' = [kind |-> "raised", error |-> "RoleError"]
    /\ UNCHANGED <<health_tips, retrieval, state, current_turn, next_speaker_index,
                   transcript, invoked, runs, stop_reason, final_result,
                   notebooks>>

\* final_result.content if final_result else "No response"
FinalContent ==
    IF "none" \in DOMAIN final_result
    THEN [kind |-> "printed", content |-> <<"No response">>]
    ELSE IF "content" \in DOMAIN final_result
         THEN [kind |-> "printed", content |-> final_result.content]
         ELSE [kind |-> "raised", error |-> "AttributeError"]

\* run_query after the loop: print("Final response:", ...)
ReportFinal ==
    /\ state = "Done"
    /\ report.kind = "none"
    /\ report' = FinalContent
    /\ UNCHANGED <<health_tips, retrieval, state, current_turn, next_speaker_index,
                   transcript, invoked, runs, active, stop_reason, final_result,
                   notebooks>>

Next ==
    \/ Retrieve
    \/ RunStart
    \/ RetrieverTurn
    \/ ResponderTurn
    \/ RoleFails
    \/ ReportFinal

Spec == Init /\ [][Next]_vars

\* a model call that was awaited ends: it returns its message or it raises.
\* The event loop runs the one awaited call of a run to its end.
SpecLive ==
    Init /\ [][Next]_vars /\ WF_vars(RetrieverTurn \/ ResponderTurn \/ RoleFails)

(***************************************************************************)
(* retrieve_tips as a function of its argument: the query is drawn from    *)
(* Queries and the function is applied to it once.                         *)
(***************************************************************************)
InitRetrieval ==
    /\ health_tips = HealthTipsDef
    /\ query \in Queries
    /\ outcome = "none"
    /\ result = <<>>
    /\ memo = [set |-> FALSE, q |-> <<>>, r |-> <<>>, between |-> FALSE]
    /\ TeamInit
    /\ NotebooksIdle

NextRetrieval ==
    Apply

SpecRetrieval == InitRetrieval /\ [][NextRetrieval]_vars

(***************************************************************************)
(* The configuration cell.  Every notebook opens with the same function    *)
(* find_cred_json and a cell that calls it on the parent of the working    *)
(* directory and loads the file it returns.  A directory is the sequence   *)
(* of names leading to it from the filesystem root, the root being <<>>.   *)
(***************************************************************************)
MaxDepth == 3

MaxCredFiles == 2

DirNames == {"a", "b"}

RECURSIVE DirsOfDepth(_)
DirsOfDepth(n) ==
    IF n = 0 THEN {<<>>}
    ELSE {Append(d, x) : d \in DirsOfDepth(n - 1), x \in DirNames}

Dirs == UNION {DirsOfDepth(n) : n \in 0..MaxDepth}

\* the working directories: one of each depth, which is every working
\* directory up to the naming of the directories
WorkingDirs ==
    {d \in Dirs : \A k \in 1..Len(d) : d[k] = "a"}

\* the sets of at most n directories
RECURSIVE DirSetsUpTo(_)
DirSetsUpTo(n) ==
    IF n = 0 THEN {{}}
    ELSE LET smaller == DirSetsUpTo(n - 1)
         IN  smaller \cup {S \cup {d} : S \in smaller, d \in Dirs}

Notebooks == {"part_000", "embeddings", "part_001", "part_002", "part_003"}

\* the notebooks whose cell calls find_cred_json inside its try block and
\* raises FileNotFoundError itself when nothing was found
SearchInsideTry == {"part_001", "part_002", "part_003"}

\* the notebooks whose cell builds the AIProjectClient after loading
BuildsClient == {"part_001", "part_002"}

\* valid: a JSON object holding the keys the cell reads; missing_key: a JSON
\* object lacking one of them; invalid_json: not JSON; removed: the file is
\* gone by the time the cell opens it
CredContents == {"valid", "missing_key", "invalid_json", "removed"}

None == [kind |-> "None"]

\* str(current / 'cred.json')
CredFile(dir) ==
    [kind |-> "str", path |-> Append(dir, "cred.json")]

\* mutant of dirname: the search starts in the working directory itself
DirnameSame(path) ==
    path

\* os.path.dirname of an absolute directory path: the root is its own
dirname(path) ==
    IF path = <<>> THEN <<>> ELSE SubSeq(path, 1, Len(path) - 1)

\* mutant of Parent: the walk skips a level
ParentSkipping(path) ==
    IF Len(path) <= 2 THEN <<>> ELSE SubSeq(path, 1, Len(path) - 2)

\* Path.parent: the root is its own parent
Parent(path) ==
    IF path = <<>> THEN <<>> ELSE SubSeq(path, 1, Len(path) - 1)

\* cred_file.exists()
Exists(dir) ==
    dir \in cred_dirs

\* the messages of the cells, by their fixed text (the leading mark of the
\* error messages left out) and the value formatted into them
Message(text, value) ==
    [text |-> text, value |-> value]

ErrorText ==
    [part_001 |-> "Error initializing client: ",
     part_002 |-> "Error initializing project client: ",
     part_003 |-> "Error creating search clients: "]

\* parent_dir = os.path.dirname(os.getcwd()); current = Path(start_path)
StartSearch ==
    /\ config_pc = "start"
    /\ current' = dirname(cwd)
    /\ config_pc' = "search"
    /\ UNCHANGED <<notebook, cwd, cred_dirs, cred_content, examined,
                   file_path, printed, cell_error>>
    /\ UNCHANGED <<health_tips, retrieval, team, service>>

\* find_cred_json: one test of the loop condition and, while it holds, one
\* pass of the loop body; the value returned is assigned to file_path
SearchStep ==
    /\ config_pc = "search"
    /\ IF current # Parent(current)
       THEN /\ examined' = examined \cup {current}
            /\ IF Exists(current)
               THEN /\ file_path' = CredFile(current)
                    /\ config_pc' = "load"
                    /\ UNCHANGED current
               ELSE /\ current' = Parent(current)
                    /\ UNCHANGED <<file_path, config_pc>>
       ELSE /\ file_path' = None
            /\ config_pc' = "load"
            /\ UNCHANGED <<current, examined>>
    /\ UNCHANGED <<notebook, cwd, cred_dirs, cred_content, printed, cell_error>>
    /\ UNCHANGED <<health_tips, retrieval, team, service>>

\* the cell of the chat-completion and the embeddings notebook after the
\* search: the print of file_path, then open and json.load under
\* except FileNotFoundError / except json.JSONDecodeError
LoadUnguarded(content) ==
    LET found == <<Message("Found cred.json at: ", file_path)>>
    IN  IF file_path = None
        THEN [printed |-> found, error |-> "TypeError"]
        ELSE IF content = "removed"
        THEN [printed |-> Append(found, Message("Could not find file at: ", file_path)),
              error |-> "none"]
        ELSE IF content = "invalid_json"
        THEN [printed |-> Append(found, Message("File exists but contains invalid JSON", None)),
              error |-> "none"]
        ELSE IF content = "missing_key"
        THEN [printed |-> found, error |-> "KeyError"]
        ELSE [printed |-> Append(found, Message("Project Connection String:", None)),
              error |-> "none"]

\* the cell of the other notebooks: everything under except Exception
LoadGuarded(content, client_ok) ==
    LET found == <<Message("Found cred.json at: ", file_path)>>
        failed(e) == Message(ErrorText[notebook], e)
    IN  IF file_path = None
        THEN [printed |-> <<failed("cred.json not found in parent directories")>>,
              error |-> "none"]
        ELSE IF content = "removed"
        THEN [printed |-> Append(found, failed("FileNotFoundError")), error |-> "none"]
        ELSE IF content = "invalid_json"
        THEN [printed |-> Append(found, failed("JSONDecodeError")), error |-> "none"]
        ELSE IF notebook \notin BuildsClient
        THEN [printed |-> found, error |-> "none"]
        ELSE IF content = "missing_key" \/ ~client_ok
        THEN [printed |-> Append(found, failed("client")), error |-> "none"]
        ELSE [printed |-> Append(found, Message("Successfully initialized AIProjectClient", None)),
              error |-> "none"]

\* the rest of the cell once find_cred_json has returned
LoadConfig ==
    /\ config_pc = "load"
    /\ \E content \in CredContents, client_ok \in BOOLEAN :
         LET end == IF notebook \in SearchInsideTry
                    THEN LoadGuarded(content, client_ok)
                    ELSE LoadUnguarded(content)
         IN  /\ cred_content' = IF file_path = None THEN "unopened" ELSE content
             /\ printed' = end.printed
             /\ cell_error' = end.error
    /\ config_pc' = "done"
    /\ UNCHANGED <<notebook, cwd, cred_dirs, current, examined, file_path>>
    /\ UNCHANGED <<health_tips, retrieval, team, service>>

InitConfig ==
    /\ notebook \in Notebooks
    /\ cwd \in WorkingDirs
    /\ cred_dirs \in DirSetsUpTo(MaxCredFiles)
    /\ cred_content = "unopened"
    /\ config_pc = "start"
    /\ current = <<>>
    /\ examined = {}
    /\ file_path = [kind |-> "unassigned"]
    /\ printed = <<>>
    /\ cell_error = "none"
    /\ nb_pc = "idle"
    /\ ServiceInit
    /\ health_tips = HealthTipsDef
    /\ query = <<>>
    /\ outcome = "none"
    /\ result = <<>>
    /\ memo = [set |-> FALSE, q |-> <<>>, r |-> <<>>, between |-> FALSE]
    /\ TeamInit

NextConfig ==
    \/ StartSearch
    \/ SearchStep
    \/ LoadConfig

\* a cell that was started runs on: nothing in it waits for anything
SpecConfig == InitConfig /\ [][NextConfig]_vars /\ WF_vars(NextConfig)

(***************************************************************************)
(* The notebooks that talk to the agent service: the health calculator     *)
(* (part_001) and the Bing-grounded agent (part_002), each run from its    *)
(* first cell to its last.  Every call to the service either returns or    *)
(* raises; a cell that ends in an exception leaves the kernel as it is and *)
(* the cells after it can still be run.                                    *)
(***************************************************************************)
questions ==
    <<"What are some new HIIT workout trends I should know about?",
      "What's the current WHO recommendation for sugar intake?",
      "Any news on intermittent fasting for weight management?">>

RunStatuses == {"completed", "failed"}

Thread(id) == [kind |-> "thread", id |-> id]

ThreadRun(id, status) == [kind |-> "run", thread |-> id, status |-> status]

Agent(id) == [kind |-> "agent", id |-> id]

UploadedFile(id) == [kind |-> "file", id |-> id]

Str(text) == [kind |-> "str", text |-> text]

\* the truth value Python gives a bound name: None is false, an SDK object
\* and a non-empty str are true
Truthy(value) ==
    value.kind # "None"

\* 'name' in globals() and name
BoundAndTruthy(value) ==
    value.kind \notin {"unassigned", "None"}

\* the identifier the service gives to what the next call creates
NewId ==
    Len(sdk_calls) + 1

\* the record of one call in sdk_calls
Call(fn, op, target, ok) ==
    [fn |-> fn, question |-> question, op |-> op, target |-> target, ok |-> ok]

ConversationFns ==
    {"calculate_bmi_with_agent", "analyze_nutrition_data", "ask_bing_question"}

\* mutant of ConversationSteps: the run is started before the message is posted
RunBeforeMessage ==
    <<"create_thread", "create_and_process_run", "create_message">>

\* the service calls of calculate_bmi_with_agent, analyze_nutrition_data and
\* ask_bing_question, in the order of their try block
ConversationSteps ==
    <<"create_thread", "create_message", "create_and_process_run">>

\* the locals of a conversation function at its start
NewConversation(fn) ==
    [fn |-> fn, step |-> 1, thread |-> None, run |-> None]

\* the two locals a function returns, as they stand
Locals(fr) ==
    IF fr.fn = "create_health_calculator" THEN <<fr.agent, fr.uploaded_file>>
    ELSE <<fr.thread, fr.run>>

\* mutant of OnException: the handler returns what was bound so far
PartialResult(locals) ==
    locals

\* except Exception as e: print(...); return None, None
OnException(locals) ==
    <<None, None>>

\* mutant of Kept: only a run that completed is kept
KeptIfCompleted(thr, rn) ==
    Truthy(thr) /\ Truthy(rn) /\ rn.status = "completed"

\* if thr and rn
Kept(thr, rn) ==
    Truthy(thr) /\ Truthy(rn)

\* a function returns value to the cell that called it, and the cell goes on
Return(value) ==
    /\ returns' = Append(returns, [fn |-> frame.fn, question |-> question,
                                   value |-> value])
    /\ CASE frame.fn = "create_health_calculator" ->
              /\ health_agent' = value[1]
              /\ uploaded_file' = value[2]
              /\ nb_pc' = "bmi"
              /\ frame' = NoFrame
              /\ UNCHANGED <<sample_file, bmi_thread, bmi_run, nutrition_thread,
                             nutrition_run, bing_globals>>
         [] frame.fn = "calculate_bmi_with_agent" ->
              /\ bmi_thread' = value[1]
              /\ bmi_run' = value[2]
              /\ nb_pc' = "nutrition"
              /\ frame' = NoFrame
              /\ UNCHANGED <<sample_file, health_agent, uploaded_file,
                             nutrition_thread, nutrition_run, bing_globals>>
         [] frame.fn = "analyze_nutrition_data" ->
              /\ nutrition_thread' = value[1]
              /\ nutrition_run' = value[2]
              /\ nb_pc' = "view"
              /\ frame' = NoFrame
              /\ UNCHANGED <<sample_file, health_agent, uploaded_file,
                             bmi_thread, bmi_run, bing_globals>>
         [] frame.fn = "ask_bing_question" ->
              /\ bing_threads' = IF Kept(value[1], value[2])
                                 THEN Append(bing_threads, value)
                                 ELSE bing_threads
              /\ IF question < Len(questions)
                 THEN /\ question' = question + 1
                      /\ frame' = NewConversation("ask_bing_question")
                      /\ nb_pc' = "call"
                 ELSE /\ frame' = NoFrame
                      /\ nb_pc' = "view_bing"
                      /\ UNCHANGED question
              /\ UNCHANGED <<bing_agent, health_globals>>

\* the frame conditions of a step inside a function that does not return
StaysInFunction ==
    /\ nb_pc' = "call"
    /\ UNCHANGED <<returns, health_globals, bing_globals>>

OutsideAgents == <<health_tips, retrieval, team, credentials>>

\* sample_file = create_sample_data()
CreateSampleData ==
    /\ nb_pc = "sample"
    /\ \E ok \in BOOLEAN :
         IF ok
         THEN /\ local_files' = local_files \cup {"nutrition_data.csv"}
              /\ sample_file' = Str("nutrition_data.csv")
         ELSE /\ sample_file' = None
              /\ UNCHANGED local_files
    /\ nb_pc' = "create"
    /\ UNCHANGED <<frame, returns, sdk_calls, files, service_agents, threads,
                   health_agent, uploaded_file, bmi_thread, bmi_run,
                   nutrition_thread, nutrition_run, bing_globals, nb_error>>
    /\ UNCHANGED OutsideAgents

\* health_agent, uploaded_file = None, None; if sample_file: ...
CreateCell ==
    /\ nb_pc = "create"
    /\ IF Truthy(sample_file)
       THEN /\ frame' = [fn |-> "create_health_calculator", step |-> 1,
                         agent |-> None, uploaded_file |-> None]
            /\ nb_pc' = "call"
       ELSE /\ nb_pc' = "bmi"
            /\ UNCHANGED frame
    /\ health_agent' = None
    /\ uploaded_file' = None
    /\ UNCHANGED <<returns, sdk_calls, backend, sample_file, bmi_thread, bmi_run,
                   nutrition_thread, nutrition_run, bing_globals, nb_error>>
    /\ UNCHANGED OutsideAgents

\* create_health_calculator: upload_file_and_poll
UploadFile ==
    /\ nb_pc = "call"
    /\ frame.fn = "create_health_calculator"
    /\ frame.step = 1
    /\ \E ok \in BOOLEAN :
         /\ sdk_calls' = Append(sdk_calls, Call(frame.fn, "upload_file_and_poll", NewId, ok))
         /\ IF ok
            THEN /\ files' = files \cup {NewId}
                 /\ frame' = [frame EXCEPT !.step = 2,
                                           !.uploaded_file = UploadedFile(NewId)]
                 /\ StaysInFunction
            ELSE /\ Return(OnException(Locals(frame)))
                 /\ UNCHANGED files
    /\ UNCHANGED <<service_agents, threads, local_files, nb_error>>
    /\ UNCHANGED OutsideAgents

\* create_health_calculator: create_agent, and the return of the pair
CreateAgent ==
    /\ nb_pc = "call"
    /\ frame.fn = "create_health_calculator"
    /\ frame.step = 2
    /\ \E ok \in BOOLEAN :
         /\ sdk_calls' = Append(sdk_calls, Call(frame.fn, "create_agent", NewId, ok))
         /\ IF ok
            THEN /\ service_agents' = service_agents \cup {NewId}
                 /\ Return(<<Agent(NewId), frame.uploaded_file>>)
            ELSE /\ Return(OnException(Locals(frame)))
                 /\ UNCHANGED service_agents
    /\ UNCHANGED <<files, threads, local_files, nb_error>>
    /\ UNCHANGED OutsideAgents

\* if health_agent: bmi_thread, bmi_run = calculate_bmi_with_agent(...)
BmiCell ==
    /\ nb_pc = "bmi"
    /\ IF Truthy(health_agent)
       THEN /\ frame' = NewConversation("calculate_bmi_with_agent")
            /\ nb_pc' = "call"
       ELSE /\ nb_pc' = "nutrition"
            /\ UNCHANGED frame
    /\ UNCHANGED <<returns, sdk_calls, backend, health_globals, bing_globals,
                   nb_error>>
    /\ UNCHANGED OutsideAgents

\* if health_agent: nutrition_thread, nutrition_run = analyze_nutrition_data(...)
NutritionCell ==
    /\ nb_pc = "nutrition"
    /\ IF Truthy(health_agent)
       THEN /\ frame' = NewConversation("analyze_nutrition_data")
            /\ nb_pc' = "call"
       ELSE /\ nb_pc' = "view"
            /\ UNCHANGED frame
    /\ UNCHANGED <<returns, sdk_calls, backend, health_globals, bing_globals,
                   nb_error>>
    /\ UNCHANGED OutsideAgents

\* the next service call of a conversation function: it creates the thread,
\* posts the user message on it or runs the agent on it; a call that raises
\* ends the function in its handler, the last call that returns ends it with
\* the pair (thread, run)
ConversationStep ==
    /\ nb_pc = "call"
    /\ frame.fn \in ConversationFns
    /\ \E ok \in BOOLEAN, status \in RunStatuses :
         LET op == ConversationSteps[frame.step]
             id == IF op = "create_thread" THEN Len(threads) + 1 ELSE frame.thread.id
             target == IF op = "create_thread" /\ ~ok THEN 0 ELSE id
             after ==
                 IF op = "create_thread" THEN [frame EXCEPT !.thread = Thread(id)]
                 ELSE IF op = "create_and_process_run"
                 THEN [frame EXCEPT !.run = ThreadRun(id, status)]
                 ELSE frame
         IN  /\ sdk_calls' = Append(sdk_calls, Call(frame.fn, op, target, ok))
             /\ (op # "create_and_process_run" \/ ~ok) => status = "completed"
             /\ IF ~ok
                THEN /\ Return(OnException(Locals(frame)))
                     /\ UNCHANGED threads
                ELSE /\ threads' =
                          IF op = "create_thread"
                          THEN Append(threads, [messages |-> 0, runs |-> 0,
                                                messages_at_run |-> 0])
                          ELSE IF op = "create_message"
                          THEN [threads EXCEPT ![id].messages = @ + 1]
                          ELSE [threads EXCEPT ![id].runs = @ + 1,
                                               ![id].messages_at_run =
                                                   threads[id].messages]
                     /\ IF frame.step = Len(ConversationSteps)
                        THEN Return(Locals(after))
                        ELSE /\ frame' = [after EXCEPT !.step = @ + 1]
                             /\ StaysInFunction
    /\ UNCHANGED <<files, service_agents, local_files, nb_error>>
    /\ UNCHANGED OutsideAgents

\* the calls view_agent_responses makes for the pair (thread, run), if the
\* cell's guard lets it be called
Viewed(thread, run, ok) ==
    IF Truthy(thread) /\ Truthy(run)
    THEN <<Call("view_agent_responses", "list_messages", thread.id, ok)>>
    ELSE <<>>

\* the cell that shows the results: two guards, each reading two globals
ViewResults ==
    /\ nb_pc = "view"
    /\ \E ok1, ok2 \in BOOLEAN :
         IF bmi_thread = Unassigned \/ bmi_run = Unassigned
         THEN /\ nb_error' = "NameError"
              /\ UNCHANGED sdk_calls
         ELSE IF nutrition_thread = Unassigned \/ nutrition_run = Unassigned
         THEN /\ nb_error' = "NameError"
              /\ sdk_calls' = sdk_calls \o Viewed(bmi_thread, bmi_run, ok1)
         ELSE /\ sdk_calls' = sdk_calls \o Viewed(bmi_thread, bmi_run, ok1)
                                        \o Viewed(nutrition_thread, nutrition_run, ok2)
              /\ UNCHANGED nb_error
    /\ nb_pc' = "cleanup"
    /\ UNCHANGED <<frame, returns, backend, health_globals, bing_globals>>
    /\ UNCHANGED OutsideAgents

\* the deletions of cleanup_all, in the order of its try block
CleanupOrder ==
    <<"delete_file", "delete_agent", "os.remove">>

\* the guard of each deletion
ResourceExists(op) ==
    IF op = "delete_file" THEN BoundAndTruthy(uploaded_file)
    ELSE IF op = "delete_agent" THEN BoundAndTruthy(health_agent)
    ELSE BoundAndTruthy(sample_file) /\ sample_file.text \in local_files

\* mutant of AfterFailedDeletion: each deletion has a try block of its own
NextDeletion(step) ==
    step + 1

\* the deletions share one try block: an exception leaves it
AfterFailedDeletion(step) ==
    Len(CleanupOrder) + 1

\* cleanup_all()
CleanupCell ==
    /\ nb_pc = "cleanup"
    /\ frame' = [fn |-> "cleanup_all", step |-> 1]
    /\ nb_pc' = "call"
    /\ UNCHANGED <<returns, sdk_calls, backend, health_globals, bing_globals,
                   nb_error>>
    /\ UNCHANGED OutsideAgents

\* cleanup_all: the next guard and, if it holds, the deletion; after the
\* last, or in the handler, the function ends
CleanupStep ==
    /\ nb_pc = "call"
    /\ frame.fn = "cleanup_all"
    /\ \E ok \in BOOLEAN :
         LET op == CleanupOrder[frame.step]
             target == IF op = "delete_file" THEN uploaded_file.id
                       ELSE IF op = "delete_agent" THEN health_agent.id
                       ELSE 0
             next == IF ~ResourceExists(op) \/ ok THEN frame.step + 1
                     ELSE AfterFailedDeletion(frame.step)
         IN  /\ ~ResourceExists(op) => ok
             /\ IF ResourceExists(op)
                THEN sdk_calls' = Append(sdk_calls, Call(frame.fn, op, target, ok))
                ELSE UNCHANGED sdk_calls
             /\ files' = IF ResourceExists(op) /\ ok /\ op = "delete_file"
                         THEN files \ {target} ELSE files
             /\ service_agents' = IF ResourceExists(op) /\ ok /\ op = "delete_agent"
                                  THEN service_agents \ {target} ELSE service_agents
             /\ local_files' = IF ResourceExists(op) /\ ok /\ op = "os.remove"
                               THEN local_files \ {sample_file.text} ELSE local_files
             /\ IF next > Len(CleanupOrder)
                THEN /\ frame' = NoFrame
                     /\ nb_pc' = "end"
                ELSE /\ frame' = [frame EXCEPT !.step = next]
                     /\ nb_pc' = "call"
    /\ UNCHANGED <<returns, threads, health_globals, bing_globals, nb_error>>
    /\ UNCHANGED OutsideAgents

\* bing_agent = create_bing_grounded_agent()
CreateBingAgent ==
    /\ nb_pc = "bing_agent"
    /\ \E ok \in BOOLEAN :
         /\ sdk_calls' = Append(sdk_calls,
                                Call("create_bing_grounded_agent", "create_agent", NewId, ok))
         /\ IF ok
            THEN /\ service_agents' = service_agents \cup {NewId}
                 /\ bing_agent' = Agent(NewId)
            ELSE /\ bing_agent' = None
                 /\ UNCHANGED service_agents
    /\ nb_pc' = "ask"
    /\ UNCHANGED <<frame, returns, files, threads, local_files, health_globals,
                   bing_threads, question, nb_error>>
    /\ UNCHANGED OutsideAgents

\* bing_threads = []; if bing_agent: for q in questions: ...
AskCell ==
    /\ nb_pc = "ask"
    /\ bing_threads' = <<>>
    /\ IF Truthy(bing_agent)
       THEN /\ question' = 1
            /\ frame' = NewConversation("ask_bing_question")
            /\ nb_pc' = "call"
       ELSE /\ nb_pc' = "view_bing"
            /\ UNCHANGED <<question, frame>>
    /\ UNCHANGED <<returns, sdk_calls, backend, health_globals, bing_agent,
                   nb_error>>
    /\ UNCHANGED OutsideAgents

\* if bing_threads: for (thr, rn) in bing_threads: view_bing_conversation(...)
ViewBing ==
    /\ nb_pc = "view_bing"
    /\ sdk_calls' = sdk_calls \o
           [k \in 1..Len(bing_threads) |->
               Call("view_bing_conversation", "list_messages", bing_threads[k][1].id, TRUE)]
    /\ nb_pc' = "cleanup_bing"
    /\ UNCHANGED <<frame, returns, backend, health_globals, bing_globals, nb_error>>
    /\ UNCHANGED OutsideAgents

\* cleanup_bing_agent(bing_agent)
CleanupBing ==
    /\ nb_pc = "cleanup_bing"
    /\ \E ok \in BOOLEAN :
         IF Truthy(bing_agent)
         THEN /\ sdk_calls' = Append(sdk_calls,
                                     Call("cleanup_bing_agent", "delete_agent", bing_agent.id, ok))
              /\ service_agents' = IF ok THEN service_agents \ {bing_agent.id}
                                   ELSE service_agents
         ELSE /\ ok
              /\ UNCHANGED <<sdk_calls, service_agents>>
    /\ nb_pc' = "end"
    /\ UNCHANGED <<frame, returns, files, threads, local_files, health_globals,
                   bing_globals, nb_error>>
    /\ UNCHANGED OutsideAgents

InitAgents ==
    /\ notebook \in {"part_001", "part_002"}
    /\ nb_pc = IF notebook = "part_001" THEN "sample" ELSE "bing_agent"
    /\ ServiceInit
    /\ cwd = <<>>
    /\ cred_dirs = {}
    /\ cred_content = "unopened"
    /\ config_pc = "idle"
    /\ current = <<>>
    /\ examined = {}
    /\ file_path = [kind |-> "unassigned"]
    /\ printed = <<>>
    /\ cell_error = "none"
    /\ health_tips = HealthTipsDef
    /\ query = <<>>
    /\ outcome = "none"
    /\ result = <<>>
    /\ memo = [set |-> FALSE, q |-> <<>>, r |-> <<>>, between |-> FALSE]
    /\ TeamInit

NextAgents ==
    \/ CreateSampleData
    \/ CreateCell
    \/ UploadFile
    \/ CreateAgent
    \/ BmiCell
    \/ NutritionCell
    \/ ConversationStep
    \/ ViewResults
    \/ CleanupCell
    \/ CleanupStep
    \/ CreateBingAgent
    \/ AskCell
    \/ ViewBing
    \/ CleanupBing

SpecAgents == InitAgents /\ [][NextAgents]_vars

(***************************************************************************)
(* What the claims expect, stated on the text alone and independently of   *)
(* the operators above.                                                    *)
(***************************************************************************)
\* the five lines "Source: <source> => <content>" of the Tip Store, in store order
ExpectedLines ==
    <<
      \* "Source: Fitness Guru => Do a 10-minute HIIT workout to boost your metabolism."
      <<"S", "o", "u", "r", "c", "e", ":", " ", "F", "i", "t", "n", "e", "s", "s", " ", "G",
        "u", "r", "u", " ", "=", ">", " ", "D", "o", " ", "a", " ", "1", "0", "-", "m", "i",
        "n", "u", "t", "e", " ", "H", "I", "I", "T", " ", "w", "o", "r", "k", "o", "u", "t",
        " ", "t", "o", " ", "b", "o", "o", "s", "t", " ", "y", "o", "u", "r", " ", "m", "e",
        "t", "a", "b", "o", "l", "i", "s", "m", ".">>,
      \* "Source: Health Coach => Take a brisk 15-minute walk to clear your mind and improve circulation."
      <<"S", "o", "u", "r", "c", "e", ":", " ", "H", "e", "a", "l", "t", "h", " ", "C", "o",
        "a", "c", "h", " ", "=", ">", " ", "T", "a", "k", "e", " ", "a", " ", "b", "r", "i",
        "s", "k", " ", "1", "5", "-", "m", "i", "n", "u", "t", "e", " ", "w", "a", "l", "k",
        " ", "t", "o", " ", "c", "l", "e", "a", "r", " ", "y", "o", "u", "r", " ", "m", "i",
        "n", "d", " ", "a", "n", "d", " ", "i", "m", "p", "r", "o", "v", "e", " ", "c", "i",
        "r", "c", "u", "l", "a", "t", "i", "o", "n", ".">>,
      \* "Source: Wellness Expert => Stretch for 5 minutes every hour if you're sitting at a desk."
      <<"S", "o", "u", "r", "c", "e", ":", " ", "W", "e", "l", "l", "n", "e", "s", "s", " ",
        "E", "x", "p", "e", "r", "t", " ", "=", ">", " ", "S", "t", "r", "e", "t", "c", "h",
        " ", "f", "o", "r", " ", "5", " ", "m", "i", "n", "u", "t", "e", "s", " ", "e", "v",
        "e", "r", "y", " ", "h", "o", "u", "r", " ", "i", "f", " ", "y", "o", "u", "'", "r",
        "e", " ", "s", "i", "t", "t", "i", "n", "g", " ", "a", "t", " ", "a", " ", "d", "e",
        "s", "k", ".">>,
      \* "Source: Personal Trainer => Incorporate strength training twice a week for overall fitness."
      <<"S", "o", "u", "r", "c", "e", ":", " ", "P", "e", "r", "s", "o", "n", "a", "l", " ",
        "T", "r", "a", "i", "n", "e", "r", " ", "=", ">", " ", "I", "n", "c", "o", "r", "p",
        "o", "r", "a", "t", "e", " ", "s", "t", "r", "e", "n", "g", "t", "h", " ", "t", "r",
        "a", "i", "n", "i", "n", "g", " ", "t", "w", "i", "c", "e", " ", "a", " ", "w", "e",
        "e", "k", " ", "f", "o", "r", " ", "o", "v", "e", "r", "a", "l", "l", " ", "f", "i",
        "t", "n", "e", "s", "s", ".">>,
      \* "Source: Nutritionist => Drink water regularly to stay hydrated during workouts."
      <<"S", "o", "u", "r", "c", "e", ":", " ", "N", "u", "t", "r", "i", "t", "i", "o", "n",
        "i", "s", "t", " ", "=", ">", " ", "D", "r", "i", "n", "k", " ", "w", "a", "t", "e",
        "r", " ", "r", "e", "g", "u", "l", "a", "r", "l", "y", " ", "t", "o", " ", "s", "t",
        "a", "y", " ", "h", "y", "d", "r", "a", "t", "e", "d", " ", "d", "u", "r", "i", "n",
        "g", " ", "w", "o", "r", "k", "o", "u", "t", "s", ".">>
    >>

\* the full Tip Store rendering: the five lines joined by newlines
ExpectedFullRendering ==
    ExpectedLines[1] \o <<"\n">> \o ExpectedLines[2] \o <<"\n">> \o ExpectedLines[3]
      \o <<"\n">> \o ExpectedLines[4] \o <<"\n">> \o ExpectedLines[5]

\* the lowercased contents of the five tips, in store order
ExpectedLowerContents ==
    <<
      \* "do a 10-minute hiit workout to boost your metabolism."
      <<"d", "o", " ", "a", " ", "1", "0", "-", "m", "i", "n", "u", "t", "e", " ", "h", "i",
        "i", "t", " ", "w", "o", "r", "k", "o", "u", "t", " ", "t", "o", " ", "b", "o", "o",
        "s", "t", " ", "y", "o", "u", "r", " ", "m", "e", "t", "a", "b", "o", "l", "i", "s",
        "m", ".">>,
      \* "take a brisk 15-minute walk to clear your mind and improve circulation."
      <<"t", "a", "k", "e", " ", "a", " ", "b", "r", "i", "s", "k", " ", "1", "5", "-", "m",
        "i", "n", "u", "t", "e", " ", "w", "a", "l", "k", " ", "t", "o", " ", "c", "l", "e",
        "a", "r", " ", "y", "o", "u", "r", " ", "m", "i", "n", "d", " ", "a", "n", "d", " ",
        "i", "m", "p", "r", "o", "v", "e", " ", "c", "i", "r", "c", "u", "l", "a", "t", "i",
        "o", "n", ".">>,
      \* "stretch for 5 minutes every hour if you're sitting at a desk."
      <<"s", "t", "r", "e", "t", "c", "h", " ", "f", "o", "r", " ", "5", " ", "m", "i", "n",
        "u", "t", "e", "s", " ", "e", "v", "e", "r", "y", " ", "h", "o", "u", "r", " ", "i",
        "f", " ", "y", "o", "u", "'", "r", "e", " ", "s", "i", "t", "t", "i", "n", "g", " ",
        "a", "t", " ", "a", " ", "d", "e", "s", "k", ".">>,
      \* "incorporate strength training twice a week for overall fitness."
      <<"i", "n", "c", "o", "r", "p", "o", "r", "a", "t", "e", " ", "s", "t", "r", "e", "n",
        "g", "t", "h", " ", "t", "r", "a", "i", "n", "i", "n", "g", " ", "t", "w", "i", "c",
        "e", " ", "a", " ", "w", "e", "e", "k", " ", "f", "o", "r", " ", "o", "v", "e", "r",
        "a", "l", "l", " ", "f", "i", "t", "n", "e", "s", "s", ".">>,
      \* "drink water regularly to stay hydrated during workouts."
      <<"d", "r", "i", "n", "k", " ", "w", "a", "t", "e", "r", " ", "r", "e", "g", "u", "l",
        "a", "r", "l", "y", " ", "t", "o", " ", "s", "t", "a", "y", " ", "h", "y", "d", "r",
        "a", "t", "e", "d", " ", "d", "u", "r", "i", "n", "g", " ", "w", "o", "r", "k", "o",
        "u", "t", "s", ".">>
    >>

\* the lowercase form of character c
LowerOf(c) ==
    LET at == {k \in 1..26 : UpperCase[k] = c}
    IN  IF at = {} THEN c ELSE LowerCase[CHOOSE k \in at : TRUE]

\* w occurs in t as a run of consecutive characters
OccursIn(w, t) ==
    \E k \in 0..(Len(t) - Len(w)) : \A j \in 1..Len(w) : t[k + j] = w[j]

\* positions i..j of q hold one whitespace-separated word
IsWordAt(q, i, j) ==
    /\ \A k \in i..j : q[k] \notin {" ", "\t", "\n", "\r"}
    /\ (i = 1 \/ q[i - 1] \in {" ", "\t", "\n", "\r"})
    /\ (j = Len(q) \/ q[j + 1] \in {" ", "\t", "\n", "\r"})

\* the whitespace-separated words of the lowercased query
LowerWords(q) ==
    {[k \in 1..(j - i + 1) |-> LowerOf(q[i + k - 1])] :
        <<i, j>> \in {p \in (1..Len(q)) \X (1..Len(q)) :
                        p[1] <= p[2] /\ IsWordAt(q, p[1], p[2])}}

\* tip number n matches query q: some word of q occurs in its lowercased content
TipMatches(n, q) ==
    \E w \in LowerWords(q) : OccursIn(w, ExpectedLowerContents[n])

\* the numbers of the tips that match q
MatchingTips(q) ==
    {n \in 1..Len(ExpectedLines) : TipMatches(n, q)}

\* the lines of a newline-joined text
LinesOf(text) ==
    LET breaks == {k \in 1..Len(text) : text[k] = "\n"}
        nth(n) == CHOOSE k \in breaks : Cardinality({j \in breaks : j < k}) = n - 1
        count  == Cardinality(breaks) + 1
        first(n) == IF n = 1 THEN 1 ELSE nth(n - 1) + 1
        last(n)  == IF n = count THEN Len(text) ELSE nth(n) - 1
    IN  [n \in 1..count |-> SubSeq(text, first(n), last(n))]

\* the expected lines of the tips numbered in S, in store order
LinesOfTips(S) ==
    LET pick == SelectSeq([n \in 1..Len(ExpectedLines) |-> n], LAMBDA n : n \in S)
    IN  [k \in 1..Len(pick) |-> ExpectedLines[pick[k]]]

(***************************************************************************)
(* Claims about retrieve_tips as a function of the query (SpecRetrieval).  *)
(***************************************************************************)
\* C1: for every query (empty, whitespace-only and matching no tip included)
\* retrieve_tips returns a non-empty string that contains at least one
\* rendered tip.
C1_NonEmptyOutput ==
    outcome # "none" =>
        /\ outcome = "returned"
        /\ result # <<>>
        /\ \E n \in 1..Len(ExpectedLines) : OccursIn(ExpectedLines[n], result)

\* a non-empty query of whitespace only has been answered
C1_Witness ==
    /\ outcome = "returned"
    /\ query # <<>>
    /\ \A k \in 1..Len(query) : query[k] \in {" ", "\t"}
    /\ result # <<>>

\* C2: for every query none of whose lowercased words occurs in any tip's
\* lowercased content, retrieve_tips returns exactly the full Tip Store
\* rendering: the five tips, in store order, joined by newlines.
C2_FallbackIsFullStore ==
    (outcome = "returned" /\ MatchingTips(query) = {}) =>
        result = ExpectedFullRendering

\* a query that has words, none of them in any tip, has been answered
C2_Witness ==
    /\ outcome = "returned"
    /\ LowerWords(query) # {}
    /\ MatchingTips(query) = {}
    /\ result = ExpectedFullRendering

\* C3: for every query that at least one tip matches, retrieve_tips returns
\* the renderings of exactly the matching tips: none omitted, none added.
C3_ExactlyTheMatchingTips ==
    (outcome = "returned" /\ MatchingTips(query) # {}) =>
        LinesOf(result) = LinesOfTips(MatchingTips(query))

\* a query matched by some tips and not by others has been answered
C3_Witness ==
    /\ outcome = "returned"
    /\ MatchingTips(query) # {}
    /\ MatchingTips(query) # 1..Len(ExpectedLines)
    /\ Len(LinesOf(result)) = Cardinality(MatchingTips(query))

\* C4: for the query "HIIT workout" the output includes the rendered tip
\* whose source is "Fitness Guru", the tip that contains "HIIT workout".
C4_HIITWorkout ==
    (outcome = "returned" /\ query = HIITQuery) =>
        \E k \in 1..Len(LinesOf(result)) :
            LET line == LinesOf(result)[k]
                head == <<"S", "o", "u", "r", "c", "e", ":", " ">> \o FitnessGuru
                          \o <<" ", "=", ">", " ">>
            IN  /\ Len(line) >= Len(head)
                /\ SubSeq(line, 1, Len(head)) = head
                /\ OccursIn(HIITQuery, line)

\* "HIIT workout" has been answered
C4_Witness ==
    /\ outcome = "returned"
    /\ query = HIITQuery
    /\ result # <<>>

\* C5: retrieve_tips is total, with no failure outcome: every call returns,
\* and for the empty string it takes the fallback and returns the full Tip
\* Store rendering.
C5_TotalAndEmptyFallsBack ==
    outcome # "none" =>
        /\ outcome = "returned"
        /\ (query = <<>> => result = ExpectedFullRendering)

\* the empty string has been answered
C5_Witness ==
    /\ outcome = "returned"
    /\ query = <<>>
    /\ result = ExpectedFullRendering

\* C6: for every query the output is a newline-joined list whose every line
\* is "Source: <source> => <content>" of some tip, each tip at most once,
\* the lines in Tip Store order.
C6_OutputFormat ==
    outcome = "returned" =>
        LET lines == LinesOf(result)
            tipOf(k) == {n \in 1..Len(ExpectedLines) : ExpectedLines[n] = lines[k]}
        IN  /\ \A k \in 1..Len(lines) : tipOf(k) # {}
            /\ \A j, k \in 1..Len(lines) :
                   j < k => \A m \in tipOf(j), n \in tipOf(k) : m < n

\* an answer of several lines, but not the whole store
C6_Witness ==
    /\ outcome = "returned"
    /\ Len(LinesOf(result)) \in 2..4

(***************************************************************************)
(* Claims about sessions: retrieve_tips calls and pipeline runs (Spec).    *)
(***************************************************************************)
\* C7: the Tip Store is non-empty at initialization and never mutated: after
\* any sequence of retrieve_tips calls and pipeline runs, health_tips holds
\* the same five tips, in the same order, as at definition.
C7_TipStoreImmutable ==
    /\ Len(health_tips) = 5
    /\ health_tips = HealthTipsDef
    /\ \A n \in 1..5 :
           SourcePrefix \o health_tips[n].source \o Arrow \o health_tips[n].content
               = ExpectedLines[n]

\* retrieve_tips has been called and a pipeline run has completed
C7_Witness ==
    /\ outcome = "returned"
    /\ state = "Done"
    /\ runs = MaxRuns
    /\ health_tips = HealthTipsDef

\* C8: retrieve_tips is deterministic: two calls with the same query return
\* the same string, whatever other queries were retrieved in between.
C8_Deterministic ==
    (memo.set /\ outcome = "returned" /\ query = memo.q) => result = memo.r

\* the remembered query has been retrieved again after a different query
C8_Witness ==
    /\ memo.set
    /\ memo.between
    /\ outcome = "returned"
    /\ query = memo.q
    /\ result = memo.r

\* C9: in any run of the Turn Coordinator configured with max_turns=4, the
\* number of role invocations (Retriever plus Responder) never exceeds 4.
C9_AtMostFourInvocations ==
    Len(invoked) <= 4

\* a run has ended with four role invocations
C9_Witness ==
    /\ state = "Done"
    /\ Len(invoked) = 4

\* C10: within one run the roles are invoked in strict alternation starting
\* with the Retriever: the k-th invocation is the Retriever for odd k and
\* the Responder for even k, so no role takes two consecutive turns.
C10_StrictAlternation ==
    /\ \A k \in 1..Len(invoked) :
           invoked[k] = IF k % 2 = 1 THEN "RetrieverAgent" ELSE "ResponderAgent"
    /\ \A k \in 1..(Len(invoked) - 1) : invoked[k] # invoked[k + 1]

\* the second run has invoked its fourth role
C10_Witness ==
    /\ runs = 2
    /\ Len(invoked) = 4
    /\ invoked[1] = "RetrieverAgent"
    /\ invoked[4] = "ResponderAgent"

(***************************************************************************)
(* Claims about the Turn Coordinator and run_query (Spec, SpecLive).       *)
(***************************************************************************)
\* the steps of the coordinator state inside one run
RunTransitions ==
    { <<"RetrieverTurn", "ResponderTurn">>,
      <<"ResponderTurn", "RetrieverTurn">>,
      <<"ResponderTurn", "Done">> }

C12_ReachesDoneAfterFour ==
    /\ [](state = "Done" =>
            /\ Len(invoked) = 4
            /\ Cardinality({k \in 1..Len(invoked) : invoked[k] = "RetrieverAgent"}) = 2
            /\ Cardinality({k \in 1..Len(invoked) : invoked[k] = "ResponderAgent"}) = 2
            /\ stop_reason = "max_turns")
    /\ \A r \in 1..MaxRuns :
          (runs = r /\ state # "Done") ~>
              (runs = r /\ (state = "Done" \/ report.kind = "raised"))

\* a run without a failing invocation has been stopped by the turn limit
C12_Witness ==
    /\ state = "Done"
    /\ stop_reason = "max_turns"
    /\ report.kind = "none"
    /\ Len(invoked) = max_turns

\* the content of the last Responder-authored message of the transcript
LastResponderContent ==
    LET at == {k \in 1..Len(transcript) : transcript[k].source = "ResponderAgent"}
    IN  transcript[CHOOSE k \in at : \A j \in at : j <= k].content

\* C13: when a run completes, the final result run_query reports (prints as
\* the final response) equals the content of the last Responder-authored
\* message of the transcript.
C13_FinalIsLastResponder ==
    (state = "Done" /\ report.kind # "none") =>
        /\ report.kind = "printed"
        /\ report.content = LastResponderContent

\* s is a prefix of t
IsPrefix(s, t) ==
    /\ Len(s) <= Len(t)
    /\ \A k \in 1..Len(s) : t[k] = s[k]

\* C14: the transcript is append-only during a pipeline run: in every step
\* the previous transcript is a prefix of the new one, so no message is
\* removed, reordered or modified.
C14_AppendOnly ==
    [][IsPrefix(transcript, transcript')]_vars

\* a run has appended the task and the messages of its four turns
C14_Witness ==
    /\ runs = 1
    /\ Len(transcript) = 5
    /\ transcript[1].source = "user"
    /\ transcript[5].source = "ResponderAgent"

\* the role whose turn the coordinator state names
TurnHolder ==
    IF state = "RetrieverTurn" THEN {"RetrieverAgent"}
    ELSE IF state = "ResponderTurn" THEN {"ResponderAgent"}
    ELSE {}

\* C15: roles run strictly sequentially: at most one role invocation is in
\* progress, only the role holding the turn appends to the transcript, and
\* the next role is invoked only in the step in which the current role's
\* invocation completes and its message is appended.
C15_StrictlySequential ==
    /\ [](Cardinality(active) <= 1 /\ active \subseteq TurnHolder)
    /\ [][ /\ (transcript' # transcript /\ runs' = runs) =>
                 /\ Len(transcript') = Len(transcript) + 1
                 /\ {transcript'[Len(transcript')].source} = active
           /\ (active' # active /\ active' # {}) =>
                 /\ Len(transcript') = Len(transcript) + 1
                 /\ transcript'[Len(transcript')].source \notin active'
         ]_vars

\* the Responder's second invocation is in progress, alone
C15_Witness ==
    /\ active = {"ResponderAgent"}
    /\ current_turn = 3
    /\ transcript[Len(transcript)].source = "RetrieverAgent"

\* a role invocation of the current run has raised
RunAborted ==
    state # "Done" /\ report.kind = "raised"

\* C16: if a role invocation fails during a run, the run aborts: the failed
\* invocation is not retried, no further role is invoked, the error surfaces
\* to the caller of run_query, and no final response is reported for the run.
C16_FailureAborts ==
    /\ [](RunAborted => (active = {} /\ report.error = "RoleError"))
    /\ [][ /\ (active # {} /\ active' = {} /\ state' # "Done") => RunAborted'
           /\ RunAborted =>
                 /\ RunAborted'
                 /\ UNCHANGED <<state, invoked, transcript, active, report,
                                final_result, runs>>
         ]_vars

\* the second role invocation of a run has raised
C16_Witness ==
    /\ RunAborted
    /\ invoked = <<"RetrieverAgent", "ResponderAgent">>
    /\ Len(transcript) = 2
    /\ report.error = "RoleError"

\* the sources of the messages the roles produced in run r, in order
RunSources(r) ==
    LET own == SelectSeq(transcript, LAMBDA m : m.run = r /\ m.source # "user")
    IN  [k \in 1..Len(own) |-> own[k].source]

\* C17: the same query run twice on the pipeline, with a model that answers
\* every call, yields transcripts of the same length and the same role
\* order (Retriever, Responder, Retriever, Responder), also when the second
\* run uses the same group_chat object as the first.
C17_SameShapeEachRun ==
    \A r \in 1..runs :
        (r < runs \/ state = "Done") =>
            /\ RunSources(r) = RunSources(1)
            /\ RunSources(r) = <<"RetrieverAgent", "ResponderAgent",
                                 "RetrieverAgent", "ResponderAgent">>
            /\ Cardinality({k \in 1..Len(transcript) : transcript[k].run = r}) = 5

\* a second run on the same group_chat has completed
C17_Witness ==
    /\ runs = 2
    /\ state = "Done"
    /\ Len(RunSources(2)) = 4

\* C18: the transcript is scoped to a single run: every run starts from an
\* empty transcript, and no message of an earlier run is visible to a role
\* in a later run.
C18_TranscriptRunScoped ==
    \A k \in 1..Len(transcript) : transcript[k].run = runs

\* C19: on every Retriever turn the Retriever invokes retrieve_tips and the
\* message it emits carries that call's output; the Retriever is configured
\* so that this tool invocation is possible.
C19_RetrieverCallsTool ==
    \A k \in 1..Len(transcript) :
        transcript[k].source = "RetrieverAgent" =>
            /\ function_calling
            /\ "retrieve_tips" \in tools.RetrieverAgent
            /\ transcript[k].tool_call

\* C20: whenever the Responder is invoked, the transcript it reads already
\* holds the user's query of the run and, after it, at least one message of
\* the Retriever.
C20_ResponderSeesQueryAndTips ==
    "ResponderAgent" \in active =>
        \E i, j \in 1..Len(transcript) :
            /\ i < j
            /\ transcript[i].source = "user"
            /\ transcript[i].run = runs
            /\ transcript[i].content = user_query
            /\ transcript[j].source = "RetrieverAgent"
            /\ transcript[j].run = runs

\* the Responder's first invocation of the second run is in progress
C20_Witness ==
    /\ "ResponderAgent" \in active
    /\ runs = 2
    /\ current_turn = 1

\* the function, called for question k, made the call op and it returned
Succeeded(fn, k, op) ==
    \E i \in 1..Len(sdk_calls) :
        /\ sdk_calls[i].fn = fn
        /\ sdk_calls[i].question = k
        /\ sdk_calls[i].op = op
        /\ sdk_calls[i].ok

\* the questions whose thread creation, message creation and run all returned
CompletedQuestions ==
    {k \in 1..Len(questions) :
        /\ Succeeded("ask_bing_question", k, "create_thread")
        /\ Succeeded("ask_bing_question", k, "create_message")
        /\ Succeeded("ask_bing_question", k, "create_and_process_run")}

\* the question a thread was created for
QuestionOfThread(id) ==
    CHOOSE k \in 0..Len(questions) :
        \E i \in 1..Len(sdk_calls) :
            /\ sdk_calls[i].op = "create_thread"
            /\ sdk_calls[i].ok
            /\ sdk_calls[i].target = id
            /\ sdk_calls[i].question = k

\* the question loop of part_002 is over
AfterQuestionLoop ==
    notebook = "part_002" /\ nb_pc \in {"view_bing", "cleanup_bing", "end"}

\* C22: after the Bing question loop, bing_threads holds exactly one
\* (thread, run) pair for each question whose thread creation, message
\* creation and run processing all returned, runs that ended with a failed
\* status included, in question order, and no pair for a question whose
\* ask_bing_question returned (None, None).
C22_BingThreadsHoldCompleted ==
    AfterQuestionLoop =>
        /\ Len(bing_threads) = Cardinality(CompletedQuestions)
        /\ \A i \in 1..Len(bing_threads) :
              /\ bing_threads[i][1].kind = "thread"
              /\ bing_threads[i][2].kind = "run"
              /\ bing_threads[i][2].thread = bing_threads[i][1].id
              /\ QuestionOfThread(bing_threads[i][1].id) \in CompletedQuestions
              /\ \A j \in 1..(i - 1) :
                    QuestionOfThread(bing_threads[j][1].id)
                        < QuestionOfThread(bing_threads[i][1].id)
        /\ \A r \in 1..Len(returns) :
              (returns[r].value[1].kind = "None") =>
                  \A i \in 1..Len(bing_threads) :
                      QuestionOfThread(bing_threads[i][1].id) # returns[r].question

\* the first question's run failed, the second question raised, the third
\* completed: two pairs, of the first and the third question
C22_Witness ==
    /\ AfterQuestionLoop
    /\ Len(bing_threads) = 2
    /\ bing_threads[1][2].status = "failed"
    /\ bing_threads[2][2].status = "completed"
    /\ CompletedQuestions = {1, 3}

\* the conversation calls made on a thread, in order
CallsOn(id) ==
    LET on == SelectSeq(sdk_calls, LAMBDA c : /\ c.fn \in ConversationFns
                                              /\ c.target = id)
    IN  [k \in 1..Len(on) |-> on[k].op]

PairFns ==
    {"create_health_calculator", "calculate_bmi_with_agent",
     "analyze_nutrition_data", "ask_bing_question"}

\* C24: create_health_calculator, calculate_bmi_with_agent,
\* analyze_nutrition_data and ask_bing_question never propagate an
\* exception: whichever service call raises, the function returns
\* (None, None); otherwise it returns a pair with no None in it; a pair with
\* exactly one None is never returned.
C24_PairOrNothing ==
    /\ \A r \in 1..Len(returns) :
          returns[r].fn \in PairFns =>
              LET value == returns[r].value
                  raised == \E i \in 1..Len(sdk_calls) :
                                /\ sdk_calls[i].fn = returns[r].fn
                                /\ sdk_calls[i].question = returns[r].question
                                /\ ~sdk_calls[i].ok
              IN  /\ (value[1].kind = "None") <=> (value[2].kind = "None")
                  /\ (value[1].kind = "None") <=> raised
    /\ \A i \in 1..Len(sdk_calls) :
          (sdk_calls[i].fn \in PairFns /\ ~sdk_calls[i].ok) =>
              /\ \E r \in 1..Len(returns) :
                    /\ returns[r].fn = sdk_calls[i].fn
                    /\ returns[r].question = sdk_calls[i].question
              /\ nb_error = "none" \/ nb_pc \in {"cleanup", "call", "end"}

\* agent creation raised after the upload had returned, and the function
\* returned (None, None)
C24_Witness ==
    /\ Len(returns) = 1
    /\ returns[1].fn = "create_health_calculator"
    /\ returns[1].value[1].kind = "None"
    /\ returns[1].value[2].kind = "None"
    /\ Len(sdk_calls) = 2
    /\ sdk_calls[1].ok
    /\ ~sdk_calls[2].ok

\* a deletion of cleanup_all raised
DeletionFailed ==
    \E i \in 1..Len(sdk_calls) :
        sdk_calls[i].fn = "cleanup_all" /\ ~sdk_calls[i].ok

\* C25: after create_health_calculator followed by cleanup_all, no file this
\* notebook uploaded to the agent service remains undeleted, provided the
\* delete calls succeed; also when the upload returned and the agent
\* creation after it raised.
C25_NoUploadedFileLeft ==
    (notebook = "part_001" /\ nb_pc = "end" /\ ~DeletionFailed) => files = {}

\* the position of a deletion in the order uploaded file, agent, local CSV
DeletionRank(op) ==
    IF op = "delete_file" THEN 1 ELSE IF op = "delete_agent" THEN 2 ELSE 3

\* the calls cleanup_all has made
Deletions ==
    SelectSeq(sdk_calls, LAMBDA c : c.fn = "cleanup_all")

\* C26: cleanup_all never raises to its caller and attempts its deletions in
\* the order uploaded file, agent, local CSV, each only if the resource
\* exists; the three share one try block, so a deletion that raises skips
\* every later one.
C26_CleanupOrderAndSkip ==
    /\ [](/\ \A i, j \in 1..Len(Deletions) :
                i < j => /\ DeletionRank(Deletions[i].op) < DeletionRank(Deletions[j].op)
                         /\ Deletions[i].ok
          /\ \A i \in 1..Len(Deletions) :
                /\ Deletions[i].op = "delete_file" =>
                      (uploaded_file.kind = "file" /\ uploaded_file.id = Deletions[i].target)
                /\ Deletions[i].op = "delete_agent" =>
                      (health_agent.kind = "agent" /\ health_agent.id = Deletions[i].target)
                /\ Deletions[i].op = "os.remove" => sample_file.kind = "str"
          /\ (notebook = "part_001" /\ nb_pc = "end") =>
                /\ (uploaded_file.kind = "file") =>
                      (Deletions # <<>> /\ Deletions[1].op = "delete_file")
                /\ (~DeletionFailed /\ health_agent.kind = "agent") =>
                      health_agent.id \notin service_agents
                /\ (~DeletionFailed /\ sample_file.kind = "str") =>
                      sample_file.text \notin local_files
                /\ (Deletions # <<>> /\ ~Deletions[1].ok /\ Deletions[1].op = "delete_file") =>
                      /\ Len(Deletions) = 1
                      /\ health_agent.id \in service_agents
                      /\ sample_file.text \in local_files)
    /\ [][(frame.fn = "cleanup_all" \/ nb_pc = "cleanup") => nb_error' = nb_error]_vars

\* the deletion of the uploaded file raised: cleanup_all ended with the
\* agent and the local CSV still there
C26_Witness ==
    /\ nb_pc = "end"
    /\ Len(Deletions) = 1
    /\ Deletions[1].op = "delete_file"
    /\ ~Deletions[1].ok
    /\ service_agents # {}
    /\ local_files # {}

\* C27: in the health-calculator notebook run top to bottom, whatever the
\* outcome of agent creation, the BMI and nutrition requests are issued only
\* when the agent exists, and the cell that shows the results reads
\* bmi_thread, bmi_run, nutrition_thread and nutrition_run only after they
\* were assigned, so it never fails on an unassigned variable.
C27_ResultsReadAssignedGlobals ==
    /\ frame.fn \in {"calculate_bmi_with_agent", "analyze_nutrition_data"} =>
          health_agent.kind = "agent"
    /\ (/\ notebook = "part_001"
        /\ \E r \in 1..Len(returns) : returns[r].fn = "create_health_calculator"
        /\ nb_pc \in {"cleanup", "call", "end"}
        /\ frame.fn \in {"none", "cleanup_all"}) =>
          /\ nb_error = "none"
          /\ bmi_thread.kind # "unassigned"
          /\ bmi_run.kind # "unassigned"
          /\ nutrition_thread.kind # "unassigned"
          /\ nutrition_run.kind # "unassigned"

\* the directory find_cred_json is given by the cell
StartDir ==
    IF cwd = <<>> THEN <<>> ELSE SubSeq(cwd, 1, Len(cwd) - 1)

\* the directories from d up to the root, both included
AncestorChain(d) ==
    {SubSeq(d, 1, k) : k \in 0..Len(d)}

\* the directory of S with the longest path
Nearest(S) ==
    CHOOSE d \in S : \A e \in S : Len(e) <= Len(d)

\* find_cred_json has returned
SearchReturned ==
    config_pc \in {"load", "done"}

\* what find_cred_json has to return when the directories of chain are the
\* ones that count
NearestIn(chain) ==
    IF chain \cap cred_dirs = {} THEN [kind |-> "None"]
    ELSE [kind |-> "str", path |-> Nearest(chain \cap cred_dirs) \o <<"cred.json">>]

\* C28 as stated: find_cred_json returns the path of cred.json in the
\* nearest directory of the ancestor chain of the start directory, start
\* and filesystem root included, that holds one, and None when no examined
\* directory holds one.
C28_NearestOnWholeChain ==
    SearchReturned =>
        /\ file_path = NearestIn(AncestorChain(StartDir))
        /\ (examined \cap cred_dirs = {}) => file_path.kind = "None"

\* C28: find_cred_json starts at the given directory and goes up: it always
\* terminates, returns the path of cred.json in the nearest directory of
\* the ancestor chain, the start directory included and the filesystem root
\* excluded, that holds one, and returns None when no examined directory
\* holds one.
C28_NearestBelowRoot ==
    /\ [](SearchReturned =>
            /\ file_path = NearestIn(AncestorChain(StartDir) \ {<<>>})
            /\ (examined \cap cred_dirs = {}) => file_path.kind = "None")
    /\ <>SearchReturned

\* the search passed a directory without cred.json and returned the file of
\* the next one up, a further one lying higher still
C28_Witness ==
    /\ SearchReturned
    /\ Len(StartDir) = 2
    /\ file_path.kind = "str"
    /\ Len(file_path.path) = 2
    /\ <<>> \in cred_dirs

\* the directories strictly between the working directory and the root
ChainAboveCwd ==
    {SubSeq(cwd, 1, k) : k \in 1..(Len(cwd) - 1)}

\* d is the working directory or lies below it
AtOrBelowCwd(d) ==
    /\ Len(d) >= Len(cwd)
    /\ SubSeq(d, 1, Len(cwd)) = cwd

C30_MissingFileIsReported ==
    (config_pc = "done" /\ file_path.kind = "None") =>
        /\ cell_error = "none"
        /\ printed # <<>>
        /\ printed[Len(printed)].text \in
              {"Could not find file at: ", "Error initializing client: ",
               "Error initializing project client: ",
               "Error creating search clients: "}
        /\ notebook \in {"part_000", "embeddings"} =>
              printed[Len(printed)].text = "Could not find file at: "

====
